---- MODULE Spec2Model ----
(***************************************************************************)
(* State-machine model of AdvancedRansomwareDefender (src/ml_defender.py): *)
(* the suspicion score, the alert cooldown, the window of recent file      *)
(* operations and the defensive response sequence.                         *)
(*                                                                         *)
(* Time is counted in seconds.  In specification Spec one call of          *)
(* on_modified is one step, taken at a single instant `now` (the           *)
(* successive datetime.now() calls of one call return the same value); in  *)
(* specification SpecConc the statements of calls made from several        *)
(* threads interleave.                                                     *)
(***************************************************************************)
EXTENDS Integers, Sequences, FiniteSets

VARIABLES
    alert_threshold,   \* self.alert_threshold (configuration)
    cooldown_period,   \* self.cooldown_period, in seconds (configuration)
    model,             \* TRUE iff self.model is not None after _load_ml_model
    admin_email,       \* TRUE iff self.admin_email is configured
    suspicion_score,   \* self.suspicion_score
    last_alert,        \* self.last_alert (None or a time)
    file_operations,   \* self.file_operations: timestamps, in arrival order
    now,               \* the clock read by datetime.now()
    ev,                \* observation of the on_modified call made by the last step
    resp,              \* observation of the last _take_defensive_actions call
    lastInvoke,        \* time of the last invocation of _take_defensive_actions
    pc,                \* per thread: position inside on_modified (concurrent delivery)
    loc,               \* per thread: the locals of its on_modified call
    inflight,          \* threads currently inside _take_defensive_actions
    logger,            \* TRUE iff self.logger has been set by _setup_logging
    baseline,          \* progress of __init__ through _establish_baseline
    sampled,           \* what the last _get_system_features call of __init__ did
    classified         \* the last _detect_encryption call made on its own

vars == <<alert_threshold, cooldown_period, model, admin_email, suspicion_score,
          last_alert, file_operations, now, ev, resp, lastInvoke, pc, loc, inflight,
          logger, baseline, sampled, classified>>

config == <<alert_threshold, cooldown_period, model, admin_email>>

\* The variables that on_modified neither reads nor writes, except for the logger.
aux == <<logger, baseline, sampled, classified>>

-----------------------------------------------------------------------------
(* Bounds of the model *)

MaxTime == 70
MaxOps == 3
MaxBurst == 17
MaxTail == 3
LiveOps == 2

-----------------------------------------------------------------------------
(* Program constants *)

None == -1
MAX_SCORE == 20
ScorePerIndicator == 2
RetentionSeconds == 60
MassCount == 15
MassSpanSeconds == 10
EntropyThreshold == 7
WindowBytes == 8192
BaselineSamples == 30
MinBaselineSamples == 20
SecondsPerDay == 86400
SecondsPerMinute == 60

\* The sessions tried: [detection] alert_threshold and cooldown_minutes of the
\* configuration, whether the model files load, and whether [notifications]
\* admin_email is set.
Configs ==
    {[alert_threshold |-> 10, cooldown_minutes |-> 5, model |-> TRUE, admin_email |-> TRUE],
     [alert_threshold |-> 5, cooldown_minutes |-> 1, model |-> FALSE, admin_email |-> FALSE],
     [alert_threshold |-> 0, cooldown_minutes |-> 1, model |-> TRUE, admin_email |-> FALSE],
     [alert_threshold |-> 21, cooldown_minutes |-> 1, model |-> FALSE, admin_email |-> TRUE]}

\* Steps by which the clock advances between two events.
Advance == {30, 40}

Threads == {1, 2}

\* Seconds between two events of a burst.
BurstAdvance == {5}

-----------------------------------------------------------------------------
(* Content heuristics *)

PNG == <<137, 80, 78, 71>>
JPEG == <<255, 216>>
PDF == <<37, 80, 68, 70>>

\* The first bytes of the files that events refer to.
Datas == { <<>>, <<137, 80, 78, 71, 0, 0>> }

\* A file is unreadable (open raises) or readable with its first bytes.
Files == {[readable |-> FALSE, data |-> <<>>]} \cup [readable : {TRUE}, data : Datas]

StartsWith(data, prefix) ==
    /\ Len(data) >= Len(prefix)
    /\ SubSeq(data, 1, Len(prefix)) = prefix

Count(data, x) == Cardinality({i \in 1..Len(data) : data[i] = x})

\* _calculate_entropy: 0 for empty data; otherwise the first byte value x with
\* p_x > 0 evaluates p_x.bit_length() on a float, which raises AttributeError.
CalculateEntropy(data) ==
    IF Len(data) = 0
    THEN [raised |-> FALSE, value |-> 0]
    ELSE IF \E x \in 0..255 : Count(data, x) > 0
         THEN [raised |-> TRUE, value |-> 0]
         ELSE [raised |-> FALSE, value |-> 0]

\* f.read(n): the first n bytes, or all of them if there are fewer.
Read(bytes, n) == IF Len(bytes) <= n THEN bytes ELSE SubSeq(bytes, 1, n)

\* _detect_encryption: every exception of the try block yields False.
DetectEncryption(file) ==
    IF ~file.readable THEN FALSE
    ELSE LET data == Read(file.data, WindowBytes)
             e == CalculateEntropy(data)
         IN
         IF e.raised THEN FALSE
         ELSE IF e.value > EntropyThreshold THEN TRUE
         ELSE IF /\ ~StartsWith(data, PNG)
                 /\ ~StartsWith(data, JPEG)
                 /\ ~StartsWith(data, PDF)
              THEN TRUE
              ELSE FALSE

-----------------------------------------------------------------------------
(* Indicator evaluation *)

\* Paths are sequences of pieces of text.  self.watch_path is an absolute path
\* without a trailing separator.
watch_path == <<"/", "w">>

\* Two files under the watched root, a file in a sibling directory whose name
\* begins like the root's, and a file elsewhere.
Paths == { <<"/", "w", "/", "a", ".txt">>, <<"/", "w", "/", "a", ".LOCKED">>,
           <<"/", "w", "2", "/", "a", ".txt">>, <<"/", "o", "/", "a", ".txt">> }

Lower(s) == IF s = ".LOCKED" THEN ".locked" ELSE s

\* The lowered path ends with one of the four extensions: an extension is the
\* last piece of a path.
SuspiciousExtension(path) ==
    /\ path # <<>>
    /\ Lower(path[Len(path)]) \in {".encrypted", ".locked", ".crypt", ".ransom"}

\* timedelta.seconds of a non-negative difference of d seconds.
TimedeltaSeconds(d) == d % SecondsPerDay

MassModification_AtLeast(ops, t) ==
    /\ Len(ops) >= MassCount
    /\ TimedeltaSeconds(t - ops[1]) < MassSpanSeconds

MassModification(ops, t) ==
    /\ Len(ops) > MassCount
    /\ TimedeltaSeconds(t - ops[1]) < MassSpanSeconds

\* What the model branch of _check_suspicious_activity can do in one call.
MlOutcomes_Always(m) == {"nofeatures", "normal", "anomaly", "raise"}

MlOutcomes(m) ==
    IF m THEN {"nofeatures", "normal", "anomaly", "raise"} ELSE {"nomodel"}

\* _check_suspicious_activity: the indicator dict, or an exception of the
\* scaler / model call, which nothing catches.
CheckSuspiciousActivity(e, ops, t, ml) ==
    IF ml = "raise"
    THEN [raised |-> TRUE, indicators |-> <<>>]
    ELSE [raised |-> FALSE,
          indicators |-> << SuspiciousExtension(e.src_path),
                            DetectEncryption(e.file),
                            MassModification(ops, t),
                            ml = "anomaly" >>]

AnyIndicator_Always(ind) == TRUE

AnyIndicator(ind) == \E i \in 1..Len(ind) : ind[i]

TrueCount(ind) == Cardinality({i \in 1..Len(ind) : ind[i]})

ScoreIncrease_Flat(ind) == ScorePerIndicator

ScoreIncrease(ind) == ScorePerIndicator * TrueCount(ind)

Min(a, b) == IF a <= b THEN a ELSE b

\* Mutant of ClampScore: the sum is stored without the min(..., 20).
ClampScore_Unclamped(score, inc) == score + inc

ClampScore(score, inc) == Min(score + inc, MAX_SCORE)

-----------------------------------------------------------------------------
(* Window of recent operations *)

\* Mutant of Recent: an entry exactly one minute old is kept.
Recent_Inclusive(op, t) == t - op <= RetentionSeconds

Recent(op, t) == t - op < RetentionSeconds

Prune(ops, t) == SelectSeq(ops, LAMBDA op : Recent(op, t))

Window(ops, t) == Prune(Append(ops, t), t)

-----------------------------------------------------------------------------
(* Alert gate *)

\* Mutant of CooldownElapsed: the gate opens when exactly one cooldown has passed.
CooldownElapsed_Never(la, t, cd) == la = None

CooldownElapsed_Inclusive(la, t, cd) == la = None \/ (t - la) >= cd

CooldownElapsed(la, t, cd) == la = None \/ (t - la) > cd

ShouldAct(score, thr, la, t, cd) == score >= thr /\ CooldownElapsed(la, t, cd)

Decay_Reset(thr) == 0

Decay(thr) == thr \div 2

-----------------------------------------------------------------------------
(* Defensive response *)

Raised == "<exception>"

ActionOrder == <<"terminate", "quarantine", "network", "lock", "notify">>

Status == {"zero", "nonzero", "raise"}

\* What the actuators do during one response: an uncaught exception while
\* enumerating processes or creating/listing the quarantine directory, the
\* exit status of the os.system commands (or an exception of os.system), and
\* the SMTP delivery.
\* (What follows an uncaught exception is not run, so it is left at its default.)
REnvs ==
    {[proc |-> "raise", quar |-> "ok", net |-> "zero", lock |-> "zero", smtp |-> "ok"],
     [proc |-> "ok", quar |-> "raise", net |-> "zero", lock |-> "zero", smtp |-> "ok"]}
    \cup [proc : {"ok"}, quar : {"ok"}, net : Status, lock : Status,
          smtp : {"ok", "raise"}]

TerminateSuspiciousProcesses(renv) ==
    IF renv.proc = "raise" THEN Raised ELSE "Terminated processes"

QuarantineSuspiciousFiles(renv) ==
    IF renv.quar = "raise" THEN Raised ELSE "Quarantined files"

\* os.system returns the exit status; the status is not looked at.
IsolateNetwork(renv) ==
    IF renv.net = "raise" THEN "Network isolation failed" ELSE "Network disabled"

LockSystem(renv) ==
    IF renv.lock = "raise" THEN "System lock failed" ELSE "System locked"

NotifyAdmin(renv, email) ==
    IF ~email THEN "No admin email configured"
    ELSE IF renv.smtp = "raise" THEN "Notification failed"
    ELSE "Admin notified"

Perform(a, renv, email) ==
    CASE a = "terminate" -> TerminateSuspiciousProcesses(renv)
      [] a = "quarantine" -> QuarantineSuspiciousFiles(renv)
      [] a = "network" -> IsolateNetwork(renv)
      [] a = "lock" -> LockSystem(renv)
      [] a = "notify" -> NotifyAdmin(renv, email)

\* Whether the actuator behind action a did not do its job.
ActuatorFailed(a, renv, email) ==
    CASE a = "terminate" -> renv.proc = "raise"
      [] a = "quarantine" -> renv.quar = "raise"
      [] a = "network" -> renv.net # "zero"
      [] a = "lock" -> renv.lock # "zero"
      [] a = "notify" -> email /\ renv.smtp = "raise"

RECURSIVE RunActions(_, _, _, _)
RunActions(todo, renv, email, acc) ==
    IF todo = <<>> THEN acc
    ELSE LET a == Head(todo)
             r == Perform(a, renv, email)
             acc1 == [acc EXCEPT !.calls = Append(@, a),
                                 !.failed = IF ActuatorFailed(a, renv, email)
                                            THEN @ \cup {a} ELSE @]
         IN IF r = Raised
            THEN [acc1 EXCEPT !.raised = TRUE]
            ELSE RunActions(Tail(todo), renv, email,
                            [acc1 EXCEPT !.actions = Append(@, r)])

NoResponse == [calls |-> <<>>, actions |-> <<>>, failed |-> {}, raised |-> FALSE]

\* Mutant of TakeDefensiveActions: network isolation runs before the quarantine.
TakeDefensiveActions_Reordered(renv, email) ==
    RunActions(<<"terminate", "network", "quarantine", "lock", "notify">>,
               renv, email, NoResponse)

\* _take_defensive_actions: the actions in program order; an exception of one
\* of them leaves the function at once.
TakeDefensiveActions(renv, email) == RunActions(ActionOrder, renv, email, NoResponse)

-----------------------------------------------------------------------------
(* Events *)

\* Whether a path lies under the watched root.
UnderRoot(path) == path = watch_path \/ StartsWith(path, watch_path \o <<"/">>)

\* A modification event: event.is_directory, event.src_path and the file
\* behind the path.  (A directory event is listed once, and the events that
\* are not under the root once per path.)
AllEvents ==
    {[is_directory |-> TRUE, src_path |-> <<"/", "w", "/", "a", ".txt">>,
      file |-> [readable |-> FALSE, data |-> <<>>]]}
    \cup [is_directory : {FALSE}, src_path : {p \in Paths : ~UnderRoot(p)},
          file : {[readable |-> TRUE, data |-> <<>>]}]
    \cup [is_directory : {FALSE}, src_path : {p \in Paths : UnderRoot(p)}, file : Files]

\* The events of the watched root itself and of paths that share no prefix
\* with it.
Events ==
    {e \in AllEvents : UnderRoot(e.src_path) \/ ~StartsWith(e.src_path, watch_path)}

Qualifies(e) == ~(e.is_directory \/ ~StartsWith(e.src_path, watch_path))

\* What a step shows of the on_modified call it made: whether the event was
\* for a directory or for a path that is not under the root (offroot), the
\* number k of true indicators, two of the indicators, the score compared
\* with the threshold, whether the response was invoked and whether an
\* exception left the call.
Idle == [kind |-> "idle", offroot |-> FALSE, k |-> 0, mass |-> FALSE,
         anomaly |-> FALSE, cmp |-> None, fired |-> FALSE, escaped |-> "no"]

\* The baseline once __init__ has returned: all samples taken.
Constructed == [phase |-> "ready", i |-> BaselineSamples, samples |-> BaselineSamples,
                stats |-> TRUE]

Unclassified == [file |-> [readable |-> FALSE, data |-> <<>>], called |-> FALSE,
                 result |-> FALSE]

NoLocals == [k |-> 0, current_time |-> None, read |-> 0]

\* The fields that __init__ sets before it takes the baseline (lines 20-37).
InitFieldsAt(start) ==
    /\ \E c \in Configs :
          /\ alert_threshold = c.alert_threshold
          /\ cooldown_period = SecondsPerMinute * c.cooldown_minutes
          /\ model = c.model
          /\ admin_email = c.admin_email
    /\ suspicion_score = 0
    /\ last_alert = None
    /\ file_operations = <<>>
    /\ now = start
    /\ ev = Idle
    /\ resp = NoResponse
    /\ lastInvoke = None
    /\ pc = [t \in Threads |-> "idle"]
    /\ loc = [t \in Threads |-> NoLocals]
    /\ inflight = {}
    /\ sampled = "uncalled"
    /\ classified = Unclassified

InitFields == InitFieldsAt(0)

\* The state when __init__ has returned.
Init == InitFields /\ logger = TRUE /\ baseline = Constructed

\* on_modified, one whole call: e is the event and ml what the model branch
\* does in this call; if the response runs, renv is what the actuators do.
\* The call is made only while the window stays within maxOps entries.
OnModifiedWithin(e, ml, maxOps) ==
    LET seen0 == [Idle EXCEPT !.offroot = e.is_directory \/ ~UnderRoot(e.src_path)] IN
    /\ UNCHANGED <<config, aux, now, pc, loc, inflight>>
    /\ IF ~Qualifies(e)
       THEN /\ ev' = [seen0 EXCEPT !.kind = "ignored"]
            /\ resp' = NoResponse
            /\ UNCHANGED <<suspicion_score, last_alert, file_operations, lastInvoke>>
       ELSE LET ops == Window(file_operations, now)
                chk == CheckSuspiciousActivity(e, ops, now, ml)
            IN
            /\ Len(ops) <= maxOps
            /\ file_operations' = ops
            /\ IF chk.raised
               THEN /\ ev' = [seen0 EXCEPT !.kind = "handled", !.escaped = "indicators"]
                    /\ resp' = NoResponse
                    /\ UNCHANGED <<suspicion_score, last_alert, lastInvoke>>
               ELSE IF ~AnyIndicator(chk.indicators)
               THEN /\ ev' = [seen0 EXCEPT !.kind = "handled"]
                    /\ resp' = NoResponse
                    /\ UNCHANGED <<suspicion_score, last_alert, lastInvoke>>
               ELSE LET score == ClampScore(suspicion_score, ScoreIncrease(chk.indicators))
                        seen == [seen0 EXCEPT !.kind = "handled",
                                              !.k = TrueCount(chk.indicators),
                                              !.mass = chk.indicators[3],
                                              !.anomaly = chk.indicators[4],
                                              !.cmp = score]
                    IN
                    IF ~ShouldAct(score, alert_threshold, last_alert, now, cooldown_period)
                    THEN /\ suspicion_score' = score
                         /\ ev' = seen
                         /\ resp' = NoResponse
                         /\ UNCHANGED <<last_alert, lastInvoke>>
                    ELSE \E renv \in REnvs :
                         LET r == TakeDefensiveActions(renv, admin_email) IN
                         /\ resp' = r
                         /\ lastInvoke' = now
                         /\ IF r.raised
                            THEN /\ suspicion_score' = score
                                 /\ ev' = [seen EXCEPT !.fired = TRUE,
                                                       !.escaped = "response"]
                                 /\ UNCHANGED last_alert
                            ELSE /\ suspicion_score' = Decay(alert_threshold)
                                 /\ last_alert' = now
                                 /\ ev' = [seen EXCEPT !.fired = TRUE]

OnModified(e, ml) == OnModifiedWithin(e, ml, MaxOps)

\* Time passes between two events.
\* A clock step under which the score would decay with time.
Elapse_Decaying(d, horizon) ==
    /\ now + d <= horizon
    /\ now' = now + d
    /\ suspicion_score' = IF suspicion_score > 0 THEN suspicion_score - 1 ELSE 0
    /\ ev' = Idle
    /\ resp' = NoResponse
    /\ UNCHANGED <<config, aux, last_alert, file_operations, lastInvoke, pc, loc, inflight>>

Elapse(d, horizon) ==
    /\ now + d <= horizon
    /\ now' = now + d
    /\ ev' = Idle
    /\ resp' = NoResponse
    /\ UNCHANGED <<config, aux, suspicion_score, last_alert, file_operations,
                   lastInvoke, pc, loc, inflight>>

Tick(d) == Elapse(d, MaxTime)

Deliver == \E e \in Events, ml \in MlOutcomes(model) : OnModified(e, ml)

Pass == \E d \in Advance : Tick(d)

Next == Deliver \/ Pass

Spec == Init /\ [][Next]_vars

-----------------------------------------------------------------------------
(* Concurrent delivery: on_modified called from several threads.  The code  *)
(* takes no lock, so the statements of two calls interleave.                *)

\* Lines 175-179: the early return, then self.file_operations.append(now).
AppendOp(t, e) ==
    /\ pc[t] = "idle"
    /\ Qualifies(e)
    /\ Len(file_operations) < MaxOps
    /\ file_operations' = Append(file_operations, now)
    /\ pc' = [pc EXCEPT ![t] = "prune"]
    /\ UNCHANGED <<config, aux, suspicion_score, last_alert, now, ev, resp, lastInvoke,
                   loc, inflight>>

\* Lines 182-183: the window is rebuilt from the recent entries.
PruneOps(t) ==
    /\ pc[t] = "prune"
    /\ file_operations' = Prune(file_operations, now)
    /\ pc' = [pc EXCEPT ![t] = "check"]
    /\ UNCHANGED <<config, aux, suspicion_score, last_alert, now, ev, resp, lastInvoke,
                   loc, inflight>>

\* Lines 186-188: the indicators and the score increase; an exception of the
\* model branch ends the call.
CheckOp(t, e, ml) ==
    /\ pc[t] = "check"
    /\ Qualifies(e)
    /\ LET chk == CheckSuspiciousActivity(e, file_operations, now, ml) IN
       IF chk.raised \/ ~AnyIndicator(chk.indicators)
       THEN /\ pc' = [pc EXCEPT ![t] = "idle"]
            /\ loc' = [loc EXCEPT ![t] = NoLocals]
       ELSE /\ pc' = [pc EXCEPT ![t] = "read"]
            /\ loc' = [loc EXCEPT ![t].k = TrueCount(chk.indicators)]
    /\ UNCHANGED <<config, aux, suspicion_score, last_alert, file_operations, now, ev,
                   resp, lastInvoke, inflight>>

\* Line 189, right-hand side: self.suspicion_score is read.
ReadScore(t) ==
    /\ pc[t] = "read"
    /\ loc' = [loc EXCEPT ![t].read = suspicion_score]
    /\ pc' = [pc EXCEPT ![t] = "write"]
    /\ UNCHANGED <<config, aux, suspicion_score, last_alert, file_operations, now, ev,
                   resp, lastInvoke, inflight>>

\* Line 189, assignment: the clamped sum is stored.
WriteScore(t) ==
    /\ pc[t] = "write"
    /\ suspicion_score' = ClampScore(loc[t].read, ScorePerIndicator * loc[t].k)
    /\ pc' = [pc EXCEPT ![t] = "gate"]
    /\ UNCHANGED <<config, aux, last_alert, file_operations, now, ev, resp, lastInvoke,
                   loc, inflight>>

\* Lines 198-203: the gate; if it is open the response is entered.
Gate(t) ==
    /\ pc[t] = "gate"
    /\ IF ShouldAct(suspicion_score, alert_threshold, last_alert, now, cooldown_period)
       THEN /\ pc' = [pc EXCEPT ![t] = "respond"]
            /\ loc' = [loc EXCEPT ![t].current_time = now]
            /\ inflight' = inflight \cup {t}
            /\ lastInvoke' = now
       ELSE /\ pc' = [pc EXCEPT ![t] = "idle"]
            /\ loc' = [loc EXCEPT ![t] = NoLocals]
            /\ UNCHANGED <<inflight, lastInvoke>>
    /\ UNCHANGED <<config, aux, suspicion_score, last_alert, file_operations, now, ev, resp>>

\* Line 203: _take_defensive_actions returns, or an exception of it ends the call.
Respond(t, renv) ==
    /\ pc[t] = "respond"
    /\ inflight' = inflight \ {t}
    /\ IF TakeDefensiveActions(renv, admin_email).raised
       THEN /\ pc' = [pc EXCEPT ![t] = "idle"]
            /\ loc' = [loc EXCEPT ![t] = NoLocals]
       ELSE /\ pc' = [pc EXCEPT ![t] = "set_alert"]
            /\ UNCHANGED loc
    /\ UNCHANGED <<config, aux, suspicion_score, last_alert, file_operations, now, ev,
                   resp, lastInvoke>>

\* Line 204.
SetAlert(t) ==
    /\ pc[t] = "set_alert"
    /\ last_alert' = loc[t].current_time
    /\ pc' = [pc EXCEPT ![t] = "decay"]
    /\ UNCHANGED <<config, aux, suspicion_score, file_operations, now, ev, resp,
                   lastInvoke, loc, inflight>>

\* Line 205.
DecayScore(t) ==
    /\ pc[t] = "decay"
    /\ suspicion_score' = Decay(alert_threshold)
    /\ pc' = [pc EXCEPT ![t] = "idle"]
    /\ loc' = [loc EXCEPT ![t] = NoLocals]
    /\ UNCHANGED <<config, aux, last_alert, file_operations, now, ev, resp, lastInvoke,
                   inflight>>

ThreadStep(t) ==
    \/ \E e \in Events : AppendOp(t, e)
    \/ PruneOps(t)
    \/ \E e \in Events, ml \in MlOutcomes(model) : CheckOp(t, e, ml)
    \/ ReadScore(t)
    \/ WriteScore(t)
    \/ Gate(t)
    \/ \E renv \in REnvs : Respond(t, renv)
    \/ SetAlert(t)
    \/ DecayScore(t)

\* On this clock the statements of a call take no time: the clock advances
\* while no call is in progress.
PassIdle == (\A t \in Threads : pc[t] = "idle") /\ Pass

NextConc == (\E t \in Threads : ThreadStep(t)) \/ PassIdle

SpecConc == Init /\ [][NextConc]_vars

-----------------------------------------------------------------------------
(* A burst of events: a defender without a model receives up to MaxBurst    *)
(* events within the span that the mass-modification indicator looks at.    *)

InitBurst == Init /\ ~model /\ alert_threshold <= MAX_SCORE

\* The files of a burst are written under the root and are not empty.
BurstEvents == {e \in Events : Qualifies(e) /\ e.file.readable /\ e.file.data # <<>>}

DeliverBurst ==
    \E e \in BurstEvents, ml \in MlOutcomes(model) : OnModifiedWithin(e, ml, MaxBurst)

PassBurst == \E d \in BurstAdvance : Elapse(d, MassSpanSeconds)

NextBurst == DeliverBurst \/ PassBurst

SpecBurst == InitBurst /\ [][NextBurst]_vars

-----------------------------------------------------------------------------
(* The content heuristic on its own: _detect_encryption applied to a file.   *)

\* Byte sequences of up to n bytes drawn from S.
SeqsUpTo(S, n) == UNION {[1..m -> S] : m \in 0..n}

\* A window in which each of the 256 byte values occurs equally often.
UniformData == [i \in 1..WindowBytes |-> (i - 1) % 256]

\* Files: unreadable, empty, short contents with and without the headers of
\* line 146, and a full window of evenly distributed bytes.
HeurFiles ==
    {[readable |-> FALSE, data |-> <<>>], [readable |-> TRUE, data |-> UniformData]}
    \cup {[readable |-> TRUE, data |-> head \o tail] :
             head \in {<<>>, PNG, JPEG, PDF}, tail \in SeqsUpTo({0, 65, 255}, MaxTail)}

Classify(file) ==
    /\ classified' = [file |-> file, called |-> TRUE, result |-> DetectEncryption(file)]
    /\ UNCHANGED <<config, logger, baseline, sampled, suspicion_score, last_alert,
                   file_operations, now, ev, resp, lastInvoke, pc, loc, inflight>>

NextHeur == \E file \in HeurFiles : Classify(file)

SpecHeur == Init /\ [][NextHeur]_vars

-----------------------------------------------------------------------------
(* Events of any path: a defender without a model is handed events of the    *)
(* watched root, of a sibling directory and of an unrelated directory.       *)

DeliverAll == \E e \in AllEvents, ml \in MlOutcomes(model) : OnModified(e, ml)

NextPaths == DeliverAll \/ Pass

SpecPaths == InitBurst /\ [][NextPaths]_vars

-----------------------------------------------------------------------------
(* Construction: __init__ takes the baseline samples (line 38) and only then *)
(* sets up logging (line 41).  Afterwards the sampler is called from the     *)
(* model branch of the indicator evaluation.                                 *)

\* _get_system_features: the metrics, or, if psutil raises, the handler of
\* line 118: self.logger.error(...) and None.  Without a logger attribute the
\* handler itself raises AttributeError.
GetSystemFeatures(psutil, lg) ==
    IF psutil = "ok" THEN "features"
    ELSE IF lg THEN "none"
    ELSE Raised

InitConstruct ==
    /\ InitFields
    /\ logger = FALSE
    /\ baseline = [phase |-> "sampling", i |-> 0, samples |-> 0, stats |-> FALSE]

\* One round of the loop of lines 73-77.
BaselineSample(psutil) ==
    LET features == GetSystemFeatures(psutil, logger) IN
    /\ baseline.phase = "sampling"
    /\ baseline.i < BaselineSamples
    /\ sampled' = features
    /\ baseline' = IF features = Raised
                   THEN [baseline EXCEPT !.phase = "aborted"]
                   ELSE [baseline EXCEPT !.i = @ + 1,
                                         !.samples = IF features = "features"
                                                     THEN @ + 1 ELSE @]
    /\ UNCHANGED <<config, logger, classified, suspicion_score, last_alert,
                   file_operations, now, ev, resp, lastInvoke, pc, loc, inflight>>

\* Lines 79-87, then _setup_logging.
FinishConstruction ==
    /\ baseline.phase = "sampling"
    /\ baseline.i = BaselineSamples
    /\ baseline' = [baseline EXCEPT !.phase = "ready",
                                    !.stats = ~(baseline.samples < MinBaselineSamples)]
    /\ logger' = TRUE
    /\ UNCHANGED <<config, sampled, classified, suspicion_score, last_alert,
                   file_operations, now, ev, resp, lastInvoke, pc, loc, inflight>>

\* Lines 164-165: the sampler called during the session.
SessionSample(psutil) ==
    /\ baseline.phase = "ready"
    /\ model
    /\ sampled' = GetSystemFeatures(psutil, logger)
    /\ UNCHANGED <<config, logger, baseline, classified, suspicion_score, last_alert,
                   file_operations, now, ev, resp, lastInvoke, pc, loc, inflight>>

NextConstruct ==
    \/ \E psutil \in {"ok", "fails"} : BaselineSample(psutil)
    \/ FinishConstruction
    \/ \E psutil \in {"ok", "fails"} : SessionSample(psutil)

SpecConstruct == InitConstruct /\ [][NextConstruct]_vars

-----------------------------------------------------------------------------
(* A session without end.  Only differences between the present and the     *)
(* recorded instants matter to on_modified (lines 183, 160, 201), so the     *)
(* clock is kept at LiveEpoch and the passing of d seconds moves the         *)
(* recorded instants d seconds back instead.  An instant that is already     *)
(* beyond its limit (an entry past the retention, an alert past the          *)
(* cooldown) is not moved further: every comparison gives the same result.   *)

LiveEpoch == 6 * SecondsPerMinute

LiveAdvance == {SecondsPerMinute}

InitLive ==
    /\ InitFieldsAt(LiveEpoch)
    /\ logger = TRUE
    /\ baseline = Constructed
    /\ alert_threshold <= MAX_SCORE

\* An instant after d more seconds: moved back, unless it is unset or already
\* more than limit seconds old.
Rebase(instant, limit, d) ==
    IF instant = None \/ now - instant > limit THEN instant ELSE instant - d

ElapseLive(d) ==
    /\ file_operations' = [i \in 1..Len(file_operations) |->
                              Rebase(file_operations[i], RetentionSeconds - 1, d)]
    /\ last_alert' = Rebase(last_alert, cooldown_period, d)
    /\ lastInvoke' = Rebase(lastInvoke, cooldown_period, d)
    /\ ev' = Idle
    /\ resp' = NoResponse
    /\ UNCHANGED <<config, aux, suspicion_score, now, pc, loc, inflight>>

PassLive == \E d \in LiveAdvance : ElapseLive(d)

\* The events of the session are for readable files under the root.
LiveEvents == {e \in Events : Qualifies(e) /\ e.file.readable}

\* An event on which at least one indicator is true.
DeliverIndicator ==
    \E e \in LiveEvents, ml \in MlOutcomes(model) :
        OnModifiedWithin(e, ml, LiveOps) /\ ev'.kind = "handled" /\ ev'.k >= 1

\* Any other event.
DeliverOther ==
    \E e \in LiveEvents, ml \in MlOutcomes(model) :
        OnModifiedWithin(e, ml, LiveOps) /\ ~(ev'.kind = "handled" /\ ev'.k >= 1)

NextLive == DeliverIndicator \/ DeliverOther \/ PassLive

\* Time keeps passing, and events with a true indicator keep arriving.
SpecLive ==
    InitLive /\ [][NextLive]_vars /\ WF_vars(PassLive) /\ SF_vars(DeliverIndicator)

-----------------------------------------------------------------------------
(* Claims *)

Range(f) == {f[i] : i \in 1..Len(f)}

\* The action an entry of the report comes from.
ActionOf(entry) ==
    CASE entry = "Terminated processes" -> "terminate"
      [] entry = "Quarantined files" -> "quarantine"
      [] entry \in {"Network disabled", "Network isolation failed"} -> "network"
      [] entry \in {"System locked", "System lock failed"} -> "lock"
      [] OTHER -> "notify"

\* Whether an entry of the report tells the operator that its step failed.
FailureOutcome(entry) ==
    entry \in {"Network isolation failed", "System lock failed", "Notification failed"}

\* C1: the response is invoked only on an event whose post-increment score is
\* >= alert_threshold and never while now - last_alert < cooldown, and no two
\* invocations of the response are less than one cooldown period apart.
C1_NoDoubleFireWithinCooldown ==
    [][ev'.fired =>
          /\ ev'.cmp >= alert_threshold
          /\ (last_alert = None \/ ~(now' - last_alert < cooldown_period))
          /\ (lastInvoke = None \/ now' - lastInvoke >= cooldown_period)]_vars

\* C2: in every reachable state the suspicion score is between 0 and 20.
C2_ScoreBounded == 0 <= suspicion_score /\ suspicion_score <= MAX_SCORE

\* C2 witness: an event has driven the score to the clamp value.
C2_Witness == ev.kind = "handled" /\ ev.cmp = MAX_SCORE /\ suspicion_score = MAX_SCORE

\* C3: every invocation of the response attempts all five actions, whichever
\* of them fails; in particular the administrator notification is executed.
C3_AllFiveAttempted ==
    ev.fired => Len(resp.calls) = Len(ActionOrder) /\ "notify" \in Range(resp.calls)

\* C4: within one response the actions run in the order terminate, quarantine,
\* network, lock, notify, each after the previous one has returned, and the
\* report lists their outcomes in that order.
C4_FixedOrder ==
    ev.fired =>
        /\ Len(resp.calls) <= Len(ActionOrder)
        /\ resp.calls = SubSeq(ActionOrder, 1, Len(resp.calls))
        /\ Len(resp.actions) = IF resp.raised THEN Len(resp.calls) - 1
                               ELSE Len(ActionOrder)
        /\ \A i \in 1..Len(resp.actions) : ActionOf(resp.actions[i]) = ActionOrder[i]

\* C4 witness: a response that ran all five actions and reported five outcomes.
C4_Witness == ev.fired /\ ~resp.raised /\ Len(resp.actions) = 5 /\ Len(resp.calls) = 5

\* C5: after any firing of the response, the score at the end of that event
\* equals alert_threshold // 2.
C5_DecayLaw == ev.fired => suspicion_score = alert_threshold \div 2

\* C6: an exception raised by the indicator computation of an event does not
\* leave on_modified (the score and last_alert stay as they were).
C6_IndicatorFailureContained ==
    [][ev'.kind = "handled" =>
          /\ ev'.escaped # "indicators"
          /\ (ev'.cmp = None => suspicion_score' = suspicion_score
                                /\ last_alert' = last_alert)]_vars

\* C7: with events delivered concurrently from several threads, at most one
\* response sequence is in flight at any time.
C7_OneResponseInFlight == Cardinality(inflight) <= 1

\* C8: when the network-isolation step fails and the other four actions
\* succeed, the report has five entries of which exactly the network entry
\* carries a failure outcome.
C8_NetworkFailureReported ==
    (ev.fired /\ ~resp.raised /\ resp.failed = {"network"}) =>
        /\ Len(resp.actions) = 5
        /\ {i \in 1..Len(resp.actions) : FailureOutcome(resp.actions[i])} = {3}

\* C9 (as stated): on an event with a true indicator whose post-increment score
\* is >= threshold, the response fires whenever last_alert is unset or
\* now - last_alert >= cooldown, the elapsed time equal to the cooldown included.
C9_FiresAtCooldown ==
    [][(/\ ev'.kind = "handled"
        /\ ev'.k >= 1
        /\ ev'.cmp >= alert_threshold
        /\ (last_alert = None \/ now' - last_alert >= cooldown_period))
       => ev'.fired]_vars

\* C9 (amended): on such an event the response fires if and only if last_alert
\* is unset or now - last_alert > cooldown; at exactly one cooldown it does not.
C9_FiresAfterCooldown ==
    [][(/\ ev'.kind = "handled"
        /\ ev'.k >= 1
        /\ ev'.cmp >= alert_threshold)
       => (ev'.fired <=> (last_alert = None \/ now' - last_alert > cooldown_period))]_vars

\* C9 witness: an event with a score at the threshold arrives exactly one
\* cooldown (of one minute) after the last alert, and the response does not fire.
C9_Witness ==
    /\ ev.kind = "handled" /\ ev.k >= 1 /\ ev.cmp >= alert_threshold
    /\ ~ev.fired
    /\ last_alert # None /\ cooldown_period = SecondsPerMinute
    /\ now - last_alert = cooldown_period

\* C10: after a qualifying event the window holds the event's own timestamp
\* and only timestamps less than 60 seconds older than now.
C10_WindowRetention ==
    ev.kind = "handled" =>
        /\ Len(file_operations) >= 1
        /\ file_operations[Len(file_operations)] = now
        /\ \A i \in 1..Len(file_operations) :
              /\ file_operations[i] <= now
              /\ now - file_operations[i] < RetentionSeconds

\* C10 witness: an event was handled at t = 0 (the response ran then), an event
\* is handled at t = 70, and the window no longer holds the t = 0 entry.
C10_Witness ==
    /\ ev.kind = "handled" /\ now = 70 /\ lastInvoke = 0
    /\ 0 \notin Range(file_operations)
    /\ 70 \in Range(file_operations)

\* C11: on a handled event the mass-modification indicator is true exactly
\* when the retained window, the current event included, has more than 15
\* entries and its oldest entry is less than 10 seconds old.
C11_MassModification ==
    (ev.kind = "handled" /\ ev.escaped # "indicators") =>
        (ev.mass <=> (/\ Len(file_operations) > MassCount
                      /\ now - file_operations[1] < MassSpanSeconds))

\* The indicator is true on the sixteenth event of a burst.
C11_Witness ==
    ev.kind = "handled" /\ ev.mass /\ Len(file_operations) = MassCount + 1

\* C12 (as stated): after a handled event with at least one true indicator the
\* score is not lower than it was before the event, and is at most 20.
C12_ScoreNotLowered ==
    [][(ev'.kind = "handled" /\ ev'.k >= 1) =>
           (suspicion_score' >= suspicion_score /\ suspicion_score' <= MAX_SCORE)]_vars

\* C12 (amended): on a handled event with at least one true indicator the
\* score compared with the threshold is not lower than the score before the
\* event and is at most 20; the score left after the event is that score,
\* unless the response was invoked and returned, and then it is
\* alert_threshold // 2, whatever the score was before.
C12_ScoreAfterEvent ==
    [][(ev'.kind = "handled" /\ ev'.k >= 1) =>
           /\ ev'.cmp >= suspicion_score
           /\ ev'.cmp <= MAX_SCORE
           /\ suspicion_score' = IF ev'.fired /\ ev'.escaped = "no"
                                  THEN alert_threshold \div 2
                                  ELSE ev'.cmp]_vars

\* A response that returned left the score below the score before the event.
C12_Witness ==
    /\ ev.fired /\ ev.escaped = "no"
    /\ ev.cmp < MAX_SCORE
    /\ suspicion_score < ev.cmp - ScorePerIndicator * ev.k

\* C13: _detect_encryption returns false for an empty byte window and for an
\* unreadable file (the model has no raising outcome for it: lines 149-150
\* catch every exception of the body).
C13_EmptyOrUnreadableIsFalse ==
    (classified.called /\ (~classified.file.readable \/ classified.file.data = <<>>))
        => ~classified.result

\* C14: _detect_encryption returns true for a window of 8192 evenly
\* distributed bytes and false for low-entropy content that begins with the
\* PNG magic bytes.
C14_HighEntropyTruePngFalse ==
    classified.called =>
        /\ (classified.file.readable /\ classified.file.data = UniformData)
               => classified.result
        /\ (classified.file.readable /\ StartsWith(classified.file.data, PNG))
               => ~classified.result

\* C15: with no model loaded the model indicator is false on every handled
\* event and the evaluation of the indicators raises nothing.
C15_NoModelNoAnomaly ==
    (~model /\ ev.kind = "handled") => (~ev.anomaly /\ ev.escaped # "indicators")

\* Without a model the response is invoked on an event whose extension and
\* entropy indicators are the two true ones.
C15_Witness ==
    ~model /\ ev.kind = "handled" /\ ev.fired /\ ev.k = 2 /\ ~ev.anomaly /\ ~ev.mass

\* C16: an event for a directory or for a path that is not under the watched
\* root leaves the window, the score and last_alert as they were and invokes
\* no response.
C16_OffRootChangesNothing ==
    [][(ev'.kind # "idle" /\ ev'.offroot) =>
           /\ UNCHANGED <<file_operations, suspicion_score, last_alert>>
           /\ ~ev'.fired]_vars

\* C17: no call of _get_system_features raises.
C17_SamplerNeverRaises == sampled # Raised

\* C18: with threshold 10 and a cooldown of 5 minutes, the first three events
\* of a session, each with exactly two true indicators, are compared with
\* scores 4, 8 and 12, and the response is invoked on the third only; a
\* fourth event one minute after the third, with a true indicator, does not
\* invoke the response.
C18_Scenario ==
    [][(/\ alert_threshold = 10
        /\ cooldown_period = 5 * SecondsPerMinute
        /\ ev'.kind = "handled"
        /\ ev'.k >= 1) =>
           /\ (/\ ev'.k = 2
               /\ lastInvoke = None
               /\ suspicion_score = 4 * Len(file_operations)
               /\ Len(file_operations) <= 2) =>
                  /\ ev'.cmp = 4 * (Len(file_operations) + 1)
                  /\ ev'.fired <=> Len(file_operations) = 2
           /\ (/\ lastInvoke # None
               /\ Len(file_operations) = 3
               /\ file_operations[3] = lastInvoke
               /\ suspicion_score \in {12, 10 \div 2}
               /\ now = lastInvoke + SecondsPerMinute) => ~ev'.fired]_vars

\* C19: on a handled event with k >= 1 true indicators and score s before the
\* event, the score compared with the threshold is min(s + 2 * k, 20).
C19_ComparedScore ==
    [][(ev'.kind = "handled" /\ ev'.k >= 1) =>
           ev'.cmp = Min(suspicion_score + ScorePerIndicator * ev'.k, MAX_SCORE)]_vars

\* Three indicators were true at once and the sum stayed below the clamp.
C19_Witness ==
    ev.kind = "handled" /\ ev.k = 3 /\ ev.cmp > 3 * ScorePerIndicator /\ ev.cmp < MAX_SCORE

\* C20 (as stated): the firing condition is evaluated on every handled event;
\* when the score is >= threshold and the cooldown has elapsed, an event with
\* no true indicator invokes the response.
C20_FiresOnEveryEvent ==
    [][(/\ ev'.kind = "handled" /\ ev'.escaped # "indicators"
        /\ ev'.k = 0
        /\ suspicion_score >= alert_threshold
        /\ CooldownElapsed(last_alert, now, cooldown_period)) => ev'.fired]_vars

\* C20 (amended): the firing condition is evaluated only on handled events
\* with at least one true indicator, on the incremented score; an event with
\* no true indicator invokes no response and leaves the score and last_alert
\* as they were.
C20_FiresOnlyWithIndicator ==
    [][(ev'.kind = "handled" /\ ev'.escaped # "indicators") =>
           /\ ev'.k = 0 =>
                  (~ev'.fired /\ UNCHANGED <<suspicion_score, last_alert>>)
           /\ ev'.k >= 1 =>
                  (ev'.fired <=> (/\ ev'.cmp >= alert_threshold
                                  /\ \/ last_alert = None
                                     \/ now - last_alert > cooldown_period))]_vars

\* The score reached the threshold during the cooldown, the cooldown has
\* elapsed, and an event with no true indicator invoked no response.
C20_Witness ==
    /\ ev.kind = "handled" /\ ev.escaped = "no" /\ ev.k = 0 /\ ~ev.fired
    /\ alert_threshold > 0
    /\ suspicion_score >= alert_threshold
    /\ last_alert # None
    /\ now - last_alert > cooldown_period

\* C21: a handled event that does not invoke the response leaves last_alert
\* unchanged; a handled event with no true indicator leaves the score
\* unchanged; and the score decreases only in a step that invokes the
\* response (a step of the clock never lowers it).
C21_Frame ==
    [][/\ (ev'.kind = "handled" /\ ~ev'.fired) => last_alert' = last_alert
       /\ (ev'.kind = "handled" /\ ev'.k = 0) => suspicion_score' = suspicion_score
       /\ suspicion_score' < suspicion_score => ev'.fired]_vars

\* After an earlier response and some time, an event with a true indicator
\* raised the score without invoking the response.
C21_Witness ==
    /\ ev.kind = "handled" /\ ev.k >= 1 /\ ~ev.fired
    /\ last_alert # None /\ now > last_alert
    /\ suspicion_score = ev.cmp /\ suspicion_score > alert_threshold \div 2

\* C22: with alert_threshold above 20 the response is never invoked.
C22_NeverFiresAboveClamp ==
    alert_threshold > MAX_SCORE => (~ev.fired /\ lastInvoke = None /\ last_alert = None)

\* The score stood at the clamp, was compared with a larger threshold, and no
\* response was invoked.
C22_Witness ==
    /\ alert_threshold > MAX_SCORE
    /\ ev.kind = "handled" /\ ev.k >= 1 /\ ev.cmp = MAX_SCORE /\ ~ev.fired
    /\ suspicion_score = MAX_SCORE

\* C23: with alert_threshold <= 20, while events with a true indicator keep
\* arriving and time keeps passing, the response is invoked again and again.
C23_FiresAgainAndAgain == []<>ev.fired

\* A response invoked on a score that was built on the score left by an
\* earlier response (threshold 10 leaves 5, so the compared score is odd).
C23_Witness ==
    /\ alert_threshold = 10
    /\ ev.fired /\ ev.cmp = 11
    /\ last_alert = now

====
